---- MODULE Spec2Model ----
(***************************************************************************)
(* The pull-request review pipeline of backend/app.py (github_webhook) and *)
(* the two services it drives, backend/services/git_service.py and         *)
(* backend/services/review_service.py, as a state machine of one webhook   *)
(* delivery (Spec); the Feedback Parser on a wide set of texts             *)
(* (ParserSpec); several deliveries processed concurrently (ConcSpec); and *)
(* manual_pr_review beside a webhook run (ManualSpec).                     *)
(*                                                                         *)
(* Conventions.                                                            *)
(*  - A Python str whose characters matter (the signature header, file     *)
(*    names, review text) is a sequence of one-character strings; the      *)
(*    character outside ASCII is written "U+00E9".  Fixed messages and     *)
(*    labels, which the code only builds and returns, are atomic strings   *)
(*    (their emoji prefix left out).                                       *)
(*  - A JSON / Python value is a tagged record: JNull (Python None),       *)
(*    JStr, JNum, JObj (a dict: a function from its keys), JList.          *)
(*  - payload_body is the raw body, a number naming its bytes; json.loads  *)
(*    of it is the entry of Bodies it indexes.                             *)
(*  - HMAC-SHA256 is modelled by a keyed digest that is injective on the   *)
(*    bounded domain (collision resistance), hex-encoded in two digits.    *)
(***************************************************************************)
EXTENDS Naturals, Sequences, FiniteSets, TLC

VARIABLES
    webhook_secret,    \* GitHubService.webhook_secret, set at construction
    openai_api_key,    \* settings.openai_api_key is configured (truthy)
    signature_header,  \* the X-Hub-Signature-256 header of the delivery, or None
    payload_body,      \* the raw request body
    pc,                \* the handler's position
    verify_result,     \* how verify_webhook_signature ended
    payload,           \* request.json()
    pr_data,           \* parse_webhook_pr(payload)
    pr_diff,           \* get_pr_diff(...)
    pr_files,          \* get_pr_files(...), or [] after a failure
    review_feedback,   \* review_pr_diff(pr_diff, pr_files)
    inline_comments,   \* create_inline_comments(review_feedback)
    review_request,    \* the review_data post_pr_review sent, or None
    ext,               \* the results the external calls of this run gave
    backend_calls,     \* number of client.chat.completions.create calls
    trace,             \* the stages this run has executed, in order
    response,          \* the HTTP response of the run, or None
    suspended,         \* the local variables of the deliveries not executing now
    current,           \* the delivery whose handler is executing
    manual             \* the local variables of manual_pr_review, or None

vars == <<webhook_secret, openai_api_key, signature_header, payload_body, pc,
          verify_result, payload, pr_data, pr_diff, pr_files, review_feedback,
          inline_comments, review_request, ext, backend_calls, trace, response,
          suspended, current, manual>>

-----------------------------------------------------------------------------
(* Bounds of the model *)

\* webhook secrets 0 .. NumSecrets-1
NumSecrets == 2
\* longest file list the hosting provider returns
MaxFiles == 3
\* the number of deliveries processed concurrently
NumRuns == 2

-----------------------------------------------------------------------------
(* Python values *)

JNull == [t |-> "null"]
None == JNull
JStr(s) == [t |-> "str", s |-> s]
JNum(n) == [t |-> "num", n |-> n]
JObj(o) == [t |-> "obj", o |-> o]
JList == [t |-> "list"]

\* the result of evaluating an expression: a value, or the exception raised
Ok(v) == [exc |-> "", v |-> v]
Raise(e) == [exc |-> e]

Min(a, b) == IF a <= b THEN a ELSE b

-----------------------------------------------------------------------------
(* str operations *)

NonAscii == {"U+00E9"}

UpperChars == <<"A", "B", "C", "D", "E", "F", "G", "H", "I", "J", "K", "L", "M",
                "N", "O", "P", "Q", "R", "S", "T", "U", "V", "W", "X", "Y", "Z">>
LowerChars == <<"a", "b", "c", "d", "e", "f", "g", "h", "i", "j", "k", "l", "m",
                "n", "o", "p", "q", "r", "s", "t", "u", "v", "w", "x", "y", "z">>

\* str.lower(), one character
LowerChar(c) ==
    IF \E i \in 1..Len(UpperChars) : UpperChars[i] = c
    THEN LowerChars[CHOOSE i \in 1..Len(UpperChars) : UpperChars[i] = c]
    ELSE c

\* str.lower()
Lower(s) == [i \in 1..Len(s) |-> LowerChar(s[i])]

\* pat in s
Contains(s, pat) ==
    \E i \in 0..(Len(s) - Len(pat)) :
        \A j \in 1..Len(pat) : s[i + j] = pat[j]

\* s[:n]
Prefix(s, n) == SubSeq(s, 1, Min(n, Len(s)))

\* s.split(sep) for a one-character sep: the pieces between the separators
RECURSIVE SplitFrom(_, _, _, _)
SplitFrom(s, sep, i, cur) ==
    IF i > Len(s) THEN <<cur>>
    ELSE IF s[i] = sep THEN <<cur>> \o SplitFrom(s, sep, i + 1, <<>>)
    ELSE SplitFrom(s, sep, i + 1, Append(cur, s[i]))

Split(s, sep) == SplitFrom(s, sep, 1, <<>>)

Whitespace == {" ", "\n", "\t"}

\* str.strip()
RECURSIVE LStrip(_)
LStrip(s) == IF s # <<>> /\ Head(s) \in Whitespace THEN LStrip(Tail(s)) ELSE s
RECURSIVE RStrip(_)
RStrip(s) ==
    IF s # <<>> /\ s[Len(s)] \in Whitespace
    THEN RStrip(SubSeq(s, 1, Len(s) - 1)) ELSE s
Strip(s) == RStrip(LStrip(s))

-----------------------------------------------------------------------------
(* GitHubService.verify_webhook_signature *)

HexDigits == <<"0", "1", "2", "3", "4", "5", "6", "7",
               "8", "9", "a", "b", "c", "d", "e", "f">>

\* hmac.new(key, msg, hashlib.sha256).hexdigest()
HmacSha256Hex(key, msg) ==
    LET v == (key * 16 + msg) % 256
    IN  <<HexDigits[(v \div 16) + 1], HexDigits[(v % 16) + 1]>>

\* hmac.compare_digest(a, b) on str arguments
CompareDigest(a, b) ==
    IF \E i \in 1..Len(a) : a[i] \in NonAscii
    THEN Raise("TypeError")
    ELSE Ok(a = b)

\* a header is None or a str; an empty str is falsy like None
HeaderMissing(h) == h = None \/ h.s = <<>>

VerifyWebhookSignature(body, header, secret) ==
    IF HeaderMissing(header) THEN Raise("ValueError")
    ELSE LET parts == Split(header.s, "=")
         IN  IF Len(parts) # 2 THEN Raise("ValueError")
             ELSE LET cmp == CompareDigest(parts[2], HmacSha256Hex(secret, body))
                  IN  IF cmp.exc # "" THEN cmp
                      ELSE IF ~cmp.v THEN Raise("ValueError")
                      ELSE Ok(TRUE)

-----------------------------------------------------------------------------
(* GitHubService.parse_webhook_pr *)

\* d[k] of Python
Subscript(d, k) ==
    IF d.exc # "" THEN d
    ELSE IF d.v.t # "obj" THEN Raise("TypeError")
    ELSE IF k \notin DOMAIN d.v.o THEN Raise("KeyError")
    ELSE Ok(d.v.o[k])

\* d.get(k) of a dict
DictGet(d, k) == IF k \in DOMAIN d.o THEN d.o[k] ELSE None

\* the first exception among the evaluations, in order
RECURSIVE FirstExc(_)
FirstExc(rs) ==
    IF rs = <<>> THEN ""
    ELSE IF Head(rs).exc # "" THEN Head(rs).exc
    ELSE FirstExc(Tail(rs))

ParseWebhookPr(p) ==
    LET action == Ok(DictGet(p, "action"))
        number == Subscript(Subscript(Ok(p), "pull_request"), "number")
        owner  == Subscript(Subscript(Subscript(Ok(p), "repository"), "owner"), "login")
        name   == Subscript(Subscript(Ok(p), "repository"), "name")
        url    == Subscript(Subscript(Ok(p), "pull_request"), "html_url")
        e      == FirstExc(<<action, number, owner, name, url>>)
    IN  IF e = "KeyError" THEN Ok(None)
        ELSE IF e # "" THEN Raise(e)
        ELSE Ok([action |-> action.v, pr_number |-> number.v,
                 repo_owner |-> owner.v, repo_name |-> name.v, pr_url |-> url.v])

-----------------------------------------------------------------------------
(* ReviewService: the Feedback Parser *)

KwCritical == <<"c", "r", "i", "t", "i", "c", "a", "l">>
KwSecurity == <<"s", "e", "c", "u", "r", "i", "t", "y">>
KwVulnerable == <<"v", "u", "l", "n", "e", "r", "a", "b", "l", "e">>
KwExploit == <<"e", "x", "p", "l", "o", "i", "t">>
KwMajor == <<"m", "a", "j", "o", "r">>
KwBug == <<"b", "u", "g">>
KwError == <<"e", "r", "r", "o", "r">>
KwBroken == <<"b", "r", "o", "k", "e", "n">>
KwMinor == <<"m", "i", "n", "o", "r">>
KwStyle == <<"s", "t", "y", "l", "e">>
KwFormatting == <<"f", "o", "r", "m", "a", "t", "t", "i", "n", "g">>
KwSuggestion == <<"s", "u", "g", "g", "e", "s", "t", "i", "o", "n">>
KwLooksGood == <<"l", "o", "o", "k", "s", " ", "g", "o", "o", "d">>
KwLgtm == <<"l", "g", "t", "m">>

\* any(word in text for word in words)
AnyWordIn(words, text) == \E w \in words : Contains(text, w)

\* the mutant of DetectSeverity: the major group is tested first
DetectSeverityMajorFirst(text) ==
    LET text_lower == Lower(text)
    IN  IF AnyWordIn({KwMajor, KwBug, KwError, KwBroken}, text_lower)
        THEN "major"
        ELSE IF AnyWordIn({KwCritical, KwSecurity, KwVulnerable, KwExploit}, text_lower)
        THEN "critical"
        ELSE IF AnyWordIn({KwMinor, KwStyle, KwFormatting, KwSuggestion}, text_lower)
        THEN "minor"
        ELSE "info"

\* ReviewService._detect_severity
DetectSeverity(text) ==
    LET text_lower == Lower(text)
    IN  IF AnyWordIn({KwCritical, KwSecurity, KwVulnerable, KwExploit}, text_lower)
        THEN "critical"
        ELSE IF AnyWordIn({KwMajor, KwBug, KwError, KwBroken}, text_lower)
        THEN "major"
        ELSE IF AnyWordIn({KwMinor, KwStyle, KwFormatting, KwSuggestion}, text_lower)
        THEN "minor"
        ELSE "info"

\* the four labels of ReviewService._get_overall_assessment
AssessCritical == "Changes need attention - critical issues found"
AssessNeedsWork == "Good start, but some issues need fixing"
AssessLgtm == "Changes look good!"
AssessNeutral == "Review completed - see comments for details"

\* the mutant of GetOverallAssessment: the approval phrases are tested first
GetOverallAssessmentLgtmFirst(review_text) ==
    LET text_lower == Lower(review_text)
    IN  IF Contains(text_lower, KwLooksGood) \/ Contains(text_lower, KwLgtm)
        THEN AssessLgtm
        ELSE IF AnyWordIn({KwCritical, KwSecurity, KwVulnerable, KwBroken}, text_lower)
        THEN AssessCritical
        ELSE IF AnyWordIn({KwMajor, KwBug, KwError}, text_lower)
        THEN AssessNeedsWork
        ELSE AssessNeutral

\* ReviewService._get_overall_assessment
GetOverallAssessment(review_text) ==
    LET text_lower == Lower(review_text)
    IN  IF AnyWordIn({KwCritical, KwSecurity, KwVulnerable, KwBroken}, text_lower)
        THEN AssessCritical
        ELSE IF AnyWordIn({KwMajor, KwBug, KwError}, text_lower)
        THEN AssessNeedsWork
        ELSE IF Contains(text_lower, KwLooksGood) \/ Contains(text_lower, KwLgtm)
        THEN AssessLgtm
        ELSE AssessNeutral

\* the length of the excerpt of the general comment
ExcerptLen == 200

Ellipsis == <<".", ".", ".">>

\* the mutant of IssueOfLine: the filename is case-folded, in the comparison
\* and in the issue
RECURSIVE IssueOfLineFolded(_, _, _)
IssueOfLineFolded(line, files, k) ==
    IF k > Len(files) THEN <<>>
    ELSE IF Contains(Lower(line), Lower(files[k].filename))
    THEN <<[file |-> Lower(files[k].filename), line |-> 1,
            message |-> Strip(line), severity |-> DetectSeverity(line)]>>
    ELSE IssueOfLineFolded(line, files, k + 1)

\* the inner loop of _extract_issues: the issue of one line, if a file matches
RECURSIVE IssueOfLine(_, _, _)
IssueOfLine(line, files, k) ==
    IF k > Len(files) THEN <<>>
    ELSE IF Contains(Lower(line), files[k].filename)
    THEN <<[file |-> files[k].filename, line |-> 1,
            message |-> Strip(line), severity |-> DetectSeverity(line)]>>
    ELSE IssueOfLine(line, files, k + 1)

\* the outer loop of _extract_issues
RECURSIVE IssuesOfLines(_, _)
IssuesOfLines(lines, files) ==
    IF lines = <<>> THEN <<>>
    ELSE IssueOfLine(Head(lines), files, 1) \o IssuesOfLines(Tail(lines), files)

\* the mutant of ExtractIssues: no general comment when no line matches
ExtractIssuesNoFallback(review_text, files) ==
    IssuesOfLines(Split(review_text, "\n"), files)

\* ReviewService._extract_issues
ExtractIssues(review_text, files) ==
    LET issues == IssuesOfLines(Split(review_text, "\n"), files)
    IN  IF issues = <<>> /\ files # <<>>
        THEN <<[file |-> files[1].filename, line |-> 1,
                message |-> Prefix(review_text, ExcerptLen) \o Ellipsis,
                severity |-> "info"]>>
        ELSE issues

\* ReviewService._parse_ai_response
ParseAiResponse(review_text, files) ==
    [summary |-> review_text,
     issues |-> ExtractIssues(review_text, files),
     overall_assessment |-> GetOverallAssessment(review_text)]

-----------------------------------------------------------------------------
(* ReviewService: the offline fallback and review_pr_diff *)

MockSummary ==
    <<"U+1F916", " ",
      "T", "h", "i", "s", " ", "i", "s", " ", "a", " ", "M", "O", "C", "K",
      " ", "r", "e", "v", "i", "e", "w", " ", "f", "o", "r", " ", "t", "e",
      "s", "t", "i", "n", "g", ".", " ", "E", "n", "a", "b", "l", "e", " ",
      "O", "p", "e", "n", "A", "I", " ", "A", "P", "I", " ", "f", "o", "r",
      " ", "r", "e", "a", "l", " ", "r", "e", "v", "i", "e", "w", "s", ".",
      "\n", "\n", "T", "h", "e", " ", "c", "o", "d", "e", " ", "c", "h",
      "a", "n", "g", "e", "s", " ", "l", "o", "o", "k", " ", "r", "e", "a",
      "s", "o", "n", "a", "b", "l", "e", " ", "i", "n", " ", "t", "h", "i",
      "s", " ", "t", "e", "s", "t", " ", "r", "e", "v", "i", "e", "w", ".">>
MockMessagePrefix ==
    <<"U+2705", " ", "M", "o", "c", "k", " ", "r", "e", "v", "i", "e", "w", ":", " ">>
MockMessageSuffix ==
    <<" ", "l", "o", "o", "k", "s", " ", "g", "o", "o", "d", "!", " ", "(",
      "T", "h", "i", "s", " ", "i", "s", " ", "a", " ", "t", "e", "s", "t",
      " ", "c", "o", "m", "m", "e", "n", "t", ")">>
MockAssessment == "Mock review completed (testing mode)"

\* the number of files the offline fallback comments on: files[:2]
MockCap == 2

\* the mutant of MockIssues: one issue per file, without the cap
MockIssuesUncapped(files) ==
    [i \in 1..Len(files) |->
        [file |-> files[i].filename, line |-> 1,
         message |-> MockMessagePrefix \o files[i].filename \o MockMessageSuffix,
         severity |-> "info"]]

\* the loop of _mock_review_diff
MockIssues(files) ==
    [i \in 1..Min(MockCap, Len(files)) |->
        [file |-> files[i].filename, line |-> 1,
         message |-> MockMessagePrefix \o files[i].filename \o MockMessageSuffix,
         severity |-> "info"]]

\* ReviewService._mock_review_diff
MockReviewDiff(diff, files) ==
    [summary |-> MockSummary,
     issues |-> MockIssues(files),
     overall_assessment |-> MockAssessment]

\* ReviewService._ai_review_diff, given how the backend call ended:
\* outcome.exc is the exception it raised, or outcome.v is message.content
AiReviewDiff(diff, files, outcome) ==
    IF outcome.exc # "" THEN outcome
    ELSE Ok(ParseAiResponse(Strip(outcome.v), files))

\* the mutant of ReviewPrDiff: the backend's exception is not caught
ReviewPrDiffPropagates(diff, files, has_key, outcome) ==
    IF ~has_key THEN Ok(MockReviewDiff(diff, files))
    ELSE AiReviewDiff(diff, files, outcome)

\* ReviewService.review_pr_diff
ReviewPrDiff(diff, files, has_key, outcome) ==
    IF ~has_key THEN Ok(MockReviewDiff(diff, files))
    ELSE LET r == AiReviewDiff(diff, files, outcome)
         IN  IF r.exc # "" THEN Ok(MockReviewDiff(diff, files)) ELSE r

-----------------------------------------------------------------------------
(* GitHubService.create_inline_comments *)

\* the mutant of CreateInlineComments: a comment equal to the one before it
\* is dropped
CreateInlineCommentsDeduplicated(feedback) ==
    IF "issues" \in DOMAIN feedback
    THEN LET c == [i \in 1..Len(feedback.issues) |->
                     [path |-> feedback.issues[i].file,
                      line |-> feedback.issues[i].line,
                      body |-> feedback.issues[i].message]]
         IN  IF Len(c) >= 2 /\ c[1] = c[2] THEN Tail(c) ELSE c
    ELSE <<>>

CreateInlineComments(feedback) ==
    IF "issues" \in DOMAIN feedback
    THEN [i \in 1..Len(feedback.issues) |->
            [path |-> feedback.issues[i].file,
             line |-> feedback.issues[i].line,
             body |-> feedback.issues[i].message]]
    ELSE <<>>

-----------------------------------------------------------------------------
(* The inputs of a run: request bodies, headers, external results *)

Owner == JObj([login |-> JStr("octo")])
PullRequest == JObj([number |-> JNum(5), html_url |-> JStr("https://github.com/octo/repo/pull/5")])
Repository == JObj([owner |-> Owner, name |-> JStr("repo")])

\* a pull_request event with every key the parser reads
Event(action) ==
    [action |-> JStr(action), pull_request |-> PullRequest, repository |-> Repository]

\* the dict d without key k
Without(d, k) == [x \in (DOMAIN d) \ {k} |-> d[x]]

\* json.loads of each request body of the model, by the body's number
Bodies ==
    << Raise("JSONDecodeError"),
       Ok(JList),
       Ok(JObj(Event("opened"))),
       Ok(JObj(Event("synchronize"))),
       Ok(JObj(Event("reopened"))),
       Ok(JObj(Event("closed"))),
       Ok(JObj(Event("edited"))),
       Ok(JObj(Without(Event("opened"), "action"))),
       Ok(JObj(Without(Event("opened"), "pull_request"))),
       Ok(JObj([Event("opened") EXCEPT !.pull_request = JObj(Without(PullRequest.o, "number"))])),
       Ok(JObj([Event("opened") EXCEPT !.pull_request = JObj(Without(PullRequest.o, "html_url"))])),
       Ok(JObj(Without(Event("opened"), "repository"))),
       Ok(JObj([Event("opened") EXCEPT !.repository = JObj(Without(Repository.o, "owner"))])),
       Ok(JObj([Event("opened") EXCEPT !.repository = JObj([Repository.o EXCEPT !.owner = JObj(Without(Owner.o, "login"))])])),
       Ok(JObj([Event("opened") EXCEPT !.repository = JObj(Without(Repository.o, "name"))])),
       Ok(JObj([Event("opened") EXCEPT !.pull_request = JNull])) >>

BodyIds == 1..Len(Bodies)
Secrets == 0..(NumSecrets - 1)

AlgSha256 == <<"s", "h", "a", "2", "5", "6">>
AlgSha1 == <<"s", "h", "a", "1">>

\* digests a sender may put in the header: the digest of any body under any
\* secret, none, and one with a character outside ASCII
SentDigests ==
    {HmacSha256Hex(k, b) : k \in Secrets, b \in BodyIds} \cup {<<>>, <<"U+00E9", "0">>}

Headers ==
    {None, JStr(<<>>), JStr(AlgSha256)}
    \cup {JStr(alg \o <<"=">> \o d) : alg \in {AlgSha256, AlgSha1}, d \in SentDigests}
    \cup {JStr(AlgSha256 \o <<"=">> \o d \o <<"=">>) : d \in SentDigests}

FileA == <<"a", ".", "p", "y">>
FileB == <<"B", ".", "p", "y">>
FileNames == {FileA, FileB}

\* the file lists of up to MaxFiles file objects
FileLists ==
    UNION {[1..n -> {[filename |-> f] : f \in FileNames}] : n \in 0..MaxFiles}

Diffs == {"diff --git a/a.py", "diff --git a/B.py"}

TextBug ==
    <<"a", ".", "p", "y", " ", "h", "a", "s", " ", "a", " ", "b", "u", "g">>
TextLgtm ==
    <<"L", "G", "T", "M", "\n">>
TextSecurity ==
    <<" ", "B", ".", "p", "y", ":", " ", "s", "e", "c", "u", "r", "i", "t",
      "y", " ", "i", "s", "s", "u", "e", "\n", "s", "e", "e", " ", "a",
      ".", "p", "y", ",", " ", "l", "o", "o", "k", "s", " ", "g", "o", "o",
      "d">>
TextPlain ==
    <<"n", "o", "t", "h", "i", "n", "g", " ", "t", "o", " ", "r", "e", "p",
      "o", "r", "t">>
ReviewTexts == {TextBug, TextLgtm, TextSecurity, TextPlain}

\* the result of an external call
NotCalled == [called |-> FALSE]
HttpResponse(status, body) == [called |-> TRUE, exc |-> "", status |-> status, body |-> body]
CallRaised(e) == [called |-> TRUE, exc |-> e]

\* what requests.get gives get_pr_diff
DiffResults ==
    {HttpResponse(200, d) : d \in Diffs}
    \cup {HttpResponse(st, "") : st \in {201, 404}}
    \cup {CallRaised("ConnectionError")}

\* what requests.get gives get_pr_files
FilesResults ==
    {HttpResponse(200, fl) : fl \in FileLists}
    \cup {HttpResponse(st, <<>>) : st \in {201, 404}}
    \cup {CallRaised("ConnectionError")}

\* what client.chat.completions.create gives _ai_review_diff
AiResults ==
    {[called |-> TRUE, exc |-> "", v |-> t] : t \in ReviewTexts}
    \cup {CallRaised("APIError")}

\* the texts of the parser's specification: one line made of a mention of a
\* file (or none) and two words, and two lines of a few kinds
MentionA ==
    <<"a", ".", "p", "y", " ">>
MentionB ==
    <<"B", ".", "p", "y", ":", " ">>
MentionUpperA ==
    <<"A", ".", "P", "Y", " ">>
MentionLowerB ==
    <<"b", ".", "p", "y", " ">>
WordCriticalUpper ==
    <<"C", "R", "I", "T", "I", "C", "A", "L">>
WordBugCap ==
    <<"B", "u", "g">>
WordLgtmUpper ==
    <<"L", "G", "T", "M">>
WordLooksGoodCap ==
    <<"L", "o", "o", "k", "s", " ", "G", "o", "o", "d">>
WordNullCheck ==
    <<"l", "i", "n", "e", " ", "1", "0", ":", " ", "m", "i", "s", "s", "i",
      "n", "g", " ", "n", "u", "l", "l", " ", "c", "h", "e", "c", "k">>
LineStyle ==
    <<" ", " ", "A", ".", "P", "Y", " ", "s", "t", "y", "l", "e", " ", " ">>
LineCritical ==
    <<"B", ".", "p", "y", " ", "c", "r", "i", "t", "i", "c", "a", "l">>

Mentions == {<<>>, MentionA, MentionB, MentionUpperA, MentionLowerB}

ReviewWords ==
    {KwCritical, KwSecurity, KwVulnerable, KwExploit, KwMajor, KwBug, KwError,
     KwBroken, KwMinor, KwStyle, KwFormatting, KwSuggestion, KwLooksGood, KwLgtm,
     WordCriticalUpper, WordBugCap, WordLgtmUpper, WordLooksGoodCap,
     WordNullCheck, <<>>}

OneLineTexts ==
    {m \o w1 \o <<" ">> \o w2 : m \in Mentions, w1 \in ReviewWords, w2 \in ReviewWords}

ReviewLines == {TextBug, TextPlain, LineStyle, LineCritical, <<>>}

TwoLineTexts ==
    {l1 \o <<"\n">> \o l2 : l1 \in ReviewLines, l2 \in ReviewLines}

WideReviewTexts == ReviewTexts \cup OneLineTexts \cup TwoLineTexts

AiResultsWide ==
    {[called |-> TRUE, exc |-> "", v |-> t] : t \in WideReviewTexts}

\* what requests.post gives post_pr_review
PostResults ==
    {HttpResponse(st, "") : st \in {200, 201, 422}}
    \cup {CallRaised("ConnectionError")}

-----------------------------------------------------------------------------
(* GitHubService: the Change-Set Client and the Publisher *)

\* the mutant of DiffStatusOk: every answer below 500 taken for a success
DiffStatusBelow500(status) == status < 500

\* get_pr_diff: response.status_code == 200
DiffStatusOk(status) == status = 200

\* GitHubService.get_pr_diff, given what requests.get gave
GetPrDiff(r) ==
    IF r.exc # "" THEN Raise(r.exc)
    ELSE IF DiffStatusOk(r.status) THEN Ok(r.body)
    ELSE Raise("Exception")

\* GitHubService.get_pr_files, given what requests.get gave
GetPrFiles(r) ==
    IF r.exc # "" THEN Raise(r.exc)
    ELSE IF r.status = 200 THEN Ok(r.body)
    ELSE Raise("Exception")

\* the mutant of ReviewData: a review whose text looks good is an approval
ReviewDataApproving(comments, review_body) ==
    [body |-> review_body,
     event |-> IF GetOverallAssessment(review_body) = AssessLgtm
               THEN "APPROVE" ELSE "COMMENT",
     comments |-> comments]

\* the review_data of post_pr_review
ReviewData(comments, review_body) ==
    [body |-> review_body, event |-> "COMMENT", comments |-> comments]

\* the mutant of PostPrReview: every 2xx answer taken for a posted review
PostPrReviewAny2xx(r) ==
    IF r.exc # "" THEN Raise(r.exc)
    ELSE Ok(r.status \in 200..299)

\* GitHubService.post_pr_review, given what requests.post gave
PostPrReview(r) ==
    IF r.exc # "" THEN Raise(r.exc)
    ELSE Ok(r.status = 200)

-----------------------------------------------------------------------------
(* github_webhook: one run of the handler *)

\* raise HTTPException(status_code, detail)
HTTPException(status_code, detail) == [status |-> status_code, detail |-> detail]

\* the mutant of ReviewActions: closed pull requests reviewed too
ReviewActionsWithClosed == {"opened", "synchronize", "reopened", "closed"}

\* the actions the handler reviews
ReviewActions == {"opened", "synchronize", "reopened"}

Init ==
    /\ webhook_secret \in Secrets
    /\ openai_api_key \in BOOLEAN
    /\ signature_header \in Headers
    /\ payload_body \in BodyIds
    /\ pc = "received"
    /\ verify_result = ""
    /\ payload = None
    /\ pr_data = None
    /\ pr_diff = ""
    /\ pr_files = <<>>
    /\ review_feedback = None
    /\ inline_comments = <<>>
    /\ review_request = None
    /\ ext = [diff |-> NotCalled, files |-> NotCalled, ai |-> NotCalled, post |-> NotCalled]
    /\ backend_calls = 0
    /\ trace = <<>>
    /\ response = None
    /\ suspended = <<>>
    /\ current = 1
    /\ manual = None

\* app.py 148-162: read the body and verify the signature
VerifySignature ==
    /\ pc = "received"
    /\ LET r == VerifyWebhookSignature(payload_body, signature_header, webhook_secret)
       IN  /\ verify_result' = IF r.exc = "" THEN "True" ELSE r.exc
           /\ IF r.exc = ""
              THEN pc' = "parse" /\ response' = response
              ELSE /\ pc' = "done"
                   /\ response' = IF r.exc = "ValueError"
                                  THEN HTTPException(401, "Invalid signature")
                                  ELSE HTTPException(500, r.exc)
    /\ trace' = Append(trace, "verify")
    /\ UNCHANGED <<manual, suspended, current, webhook_secret, openai_api_key, signature_header, payload_body,
                   payload, pr_data, pr_diff, pr_files, review_feedback,
                   inline_comments, review_request, ext, backend_calls>>

\* what app.py 165-178 computes: the payload, then pr_data or the way out
ParsedEvent(body) ==
    LET j == Bodies[body]
    IN  IF j.exc # "" THEN Raise(j.exc)
        ELSE IF j.v.t # "obj" THEN Raise("AttributeError")
        ELSE ParseWebhookPr(j.v)

\* app.py 165-178: request.json(), parse_webhook_pr, if not pr_data
ParsePayload ==
    /\ pc = "parse"
    /\ LET j == Bodies[payload_body]
           r == ParsedEvent(payload_body)
       IN  /\ payload' = IF j.exc = "" THEN j.v ELSE payload
           /\ IF r.exc # ""
              THEN /\ pc' = "done"
                   /\ response' = HTTPException(500, r.exc)
                   /\ pr_data' = pr_data
              ELSE IF r.v = None
              THEN /\ pc' = "done"
                   /\ response' = [status |-> 200, message |-> "Invalid webhook payload"]
                   /\ pr_data' = None
              ELSE /\ pc' = "filter"
                   /\ response' = response
                   /\ pr_data' = r.v
    /\ trace' = Append(trace, "parse")
    /\ UNCHANGED <<manual, suspended, current, webhook_secret, openai_api_key, signature_header, payload_body,
                   verify_result, pr_diff, pr_files, review_feedback,
                   inline_comments, review_request, ext, backend_calls>>

\* action in ["opened", "synchronize", "reopened"]
IsReviewAction(action) == action.t = "str" /\ action.s \in ReviewActions

\* app.py 183-190: the action filter
FilterAction ==
    /\ pc = "filter"
    /\ IF IsReviewAction(pr_data.action)
       THEN pc' = "fetch_diff" /\ response' = response
       ELSE /\ pc' = "done"
            /\ response' = [status |-> 200, message |-> "Ignoring action",
                            action |-> pr_data.action]
    /\ trace' = Append(trace, "filter")
    /\ UNCHANGED <<manual, suspended, current, webhook_secret, openai_api_key, signature_header, payload_body,
                   verify_result, payload, pr_data, pr_diff, pr_files, review_feedback,
                   inline_comments, review_request, ext, backend_calls>>

\* the mutant of FetchDiff: a failed diff fetch is attempted again
FetchDiffRetry ==
    /\ pc = "fetch_diff"
    /\ \E got \in DiffResults :
         LET r == GetPrDiff(got)
         IN  /\ ext' = [ext EXCEPT !.diff = got]
             /\ IF r.exc = ""
                THEN pc' = "fetch_files" /\ pr_diff' = r.v
                ELSE pc' = "fetch_diff" /\ pr_diff' = pr_diff
    /\ trace' = Append(trace, "diff")
    /\ UNCHANGED <<manual, suspended, current, webhook_secret, openai_api_key, signature_header, payload_body,
                   verify_result, payload, pr_data, pr_files, review_feedback,
                   inline_comments, review_request, backend_calls, response>>

\* app.py 195-204: fetch the diff; a failure ends the run
FetchDiffWith(results) ==
    /\ pc = "fetch_diff"
    /\ \E got \in results :
         LET r == GetPrDiff(got)
         IN  /\ ext' = [ext EXCEPT !.diff = got]
             /\ IF r.exc = ""
                THEN pc' = "fetch_files" /\ pr_diff' = r.v /\ response' = response
                ELSE /\ pc' = "done"
                     /\ pr_diff' = pr_diff
                     /\ response' = HTTPException(500, "Failed to fetch PR diff")
    /\ trace' = Append(trace, "diff")
    /\ UNCHANGED <<manual, suspended, current, webhook_secret, openai_api_key, signature_header, payload_body,
                   verify_result, payload, pr_data, pr_files, review_feedback,
                   inline_comments, review_request, backend_calls>>

FetchDiff == FetchDiffWith(DiffResults)

\* the mutant of FetchFiles: a failed files fetch ends the run like a failed diff fetch
FetchFilesFatal ==
    /\ pc = "fetch_files"
    /\ \E got \in FilesResults :
         LET r == GetPrFiles(got)
         IN  /\ ext' = [ext EXCEPT !.files = got]
             /\ IF r.exc = ""
                THEN pc' = "review" /\ pr_files' = r.v /\ response' = response
                ELSE /\ pc' = "done"
                     /\ pr_files' = pr_files
                     /\ response' = HTTPException(500, "Failed to fetch PR files")
    /\ trace' = Append(trace, "files")
    /\ UNCHANGED <<manual, suspended, current, webhook_secret, openai_api_key, signature_header, payload_body,
                   verify_result, payload, pr_data, pr_diff, review_feedback,
                   inline_comments, review_request, backend_calls>>

\* app.py 207-216: fetch the files; a failure leaves the empty list
FetchFilesWith(results) ==
    /\ pc = "fetch_files"
    /\ \E got \in results :
         LET r == GetPrFiles(got)
         IN  /\ ext' = [ext EXCEPT !.files = got]
             /\ pr_files' = IF r.exc = "" THEN r.v ELSE <<>>
    /\ pc' = "review"
    /\ trace' = Append(trace, "files")
    /\ UNCHANGED <<manual, suspended, current, webhook_secret, openai_api_key, signature_header, payload_body,
                   verify_result, payload, pr_data, pr_diff, review_feedback,
                   inline_comments, review_request, backend_calls, response>>

FetchFiles == FetchFilesWith(FilesResults)

\* app.py 219-225: the review; the backend is called only with a credential
ReviewWith(results) ==
    /\ pc = "review"
    /\ \E got \in (IF openai_api_key THEN results ELSE {NotCalled}) :
         LET r == ReviewPrDiff(pr_diff, pr_files, openai_api_key,
                               IF got.called THEN got ELSE Raise("NotCalled"))
         IN  /\ ext' = [ext EXCEPT !.ai = got]
             /\ backend_calls' = IF got.called THEN backend_calls + 1 ELSE backend_calls
             /\ IF r.exc = ""
                THEN pc' = "format" /\ review_feedback' = r.v /\ response' = response
                ELSE /\ pc' = "done"
                     /\ review_feedback' = review_feedback
                     /\ response' = HTTPException(500, "AI review failed")
    /\ trace' = Append(trace, "review")
    /\ UNCHANGED <<manual, suspended, current, webhook_secret, openai_api_key, signature_header, payload_body,
                   verify_result, payload, pr_data, pr_diff, pr_files,
                   inline_comments, review_request>>

Review == ReviewWith(AiResults)

\* the review of any text of the parser's specification
ReviewAnyText == ReviewWith(AiResultsWide)

\* app.py 228: format the feedback as inline comments
FormatComments ==
    /\ pc = "format"
    /\ inline_comments' = CreateInlineComments(review_feedback)
    /\ pc' = "post"
    /\ trace' = Append(trace, "format")
    /\ UNCHANGED <<manual, suspended, current, webhook_secret, openai_api_key, signature_header, payload_body,
                   verify_result, payload, pr_data, pr_diff, pr_files, review_feedback,
                   review_request, ext, backend_calls, response>>

\* the mutant of PublishResponse: an unposted review answered as a no-op
PublishResponseLenient(success, data, feedback) ==
    IF success.exc = "" /\ success.v
    THEN [status |-> 200, message |-> "Code review completed and posted",
          pr_number |-> data.pr_number,
          assessment |-> feedback.overall_assessment,
          issues_found |-> Len(feedback.issues)]
    ELSE [status |-> 200, message |-> "Failed to post review"]

\* app.py 241-254: the response after post_pr_review returned or raised
PublishResponse(success, data, feedback) ==
    IF success.exc = "" /\ success.v
    THEN [status |-> 200, message |-> "Code review completed and posted",
          pr_number |-> data.pr_number,
          assessment |-> feedback.overall_assessment,
          issues_found |-> Len(feedback.issues)]
    ELSE HTTPException(500, "Failed to post review")

\* app.py 232-254: post the review
PostReviewWith(results) ==
    /\ pc = "post"
    /\ \E got \in results :
         /\ ext' = [ext EXCEPT !.post = got]
         /\ review_request' = ReviewData(inline_comments, review_feedback.summary)
         /\ response' = PublishResponse(PostPrReview(got), pr_data, review_feedback)
    /\ pc' = "done"
    /\ trace' = Append(trace, "publish")
    /\ UNCHANGED <<manual, suspended, current, webhook_secret, openai_api_key, signature_header, payload_body,
                   verify_result, payload, pr_data, pr_diff, pr_files, review_feedback,
                   inline_comments, backend_calls>>

PostReview == PostReviewWith(PostResults)

Next ==
    \/ VerifySignature
    \/ ParsePayload
    \/ FilterAction
    \/ FetchDiff
    \/ FetchFiles
    \/ Review
    \/ FormatComments
    \/ PostReview

Spec == Init /\ [][Next]_vars

\* The parser's specification: a run that has come to its review with a
\* credential configured, any file list and any text of the backend; then the
\* review and the formatting.
ParserInit ==
    /\ webhook_secret = 0
    /\ openai_api_key = TRUE
    /\ payload_body = 3
    /\ signature_header = JStr(AlgSha256 \o <<"=">> \o HmacSha256Hex(0, 3))
    /\ pc = "review"
    /\ verify_result = "True"
    /\ payload = Bodies[3].v
    /\ pr_data = ParsedEvent(3).v
    /\ pr_diff = "diff --git a/a.py"
    /\ pr_files \in FileLists
    /\ review_feedback = None
    /\ inline_comments = <<>>
    /\ review_request = None
    /\ ext = [diff |-> HttpResponse(200, pr_diff), files |-> HttpResponse(200, pr_files),
              ai |-> NotCalled, post |-> NotCalled]
    /\ backend_calls = 0
    /\ trace = <<"verify", "parse", "filter", "diff", "files">>
    /\ response = None
    /\ suspended = <<>>
    /\ current = 1
    /\ manual = None

ParserNext ==
    \/ ReviewAnyText
    \/ FormatComments

ParserSpec == ParserInit /\ [][ParserNext]_vars

-----------------------------------------------------------------------------
(* Concurrent deliveries.  Every invocation of github_webhook has its own  *)
(* local variables; the plain variables of this module are those of the    *)
(* invocation that is executing, `suspended` holds those of the others.    *)
(* The server may pass from one invocation to another between any two      *)
(* stages (a superset of the schedules of the event loop, which passes     *)
(* only at an await, and of a pool of workers).  webhook_secret and        *)
(* openai_api_key are the state of the singletons, common to all.          *)

Runs == 1..NumRuns

\* the local variables of the executing invocation
Frame ==
    [signature_header |-> signature_header, payload_body |-> payload_body,
     pc |-> pc, verify_result |-> verify_result, payload |-> payload,
     pr_data |-> pr_data, pr_diff |-> pr_diff, pr_files |-> pr_files,
     review_feedback |-> review_feedback, inline_comments |-> inline_comments,
     review_request |-> review_request, ext |-> ext,
     backend_calls |-> backend_calls, trace |-> trace, response |-> response]

\* the local variables of an invocation that has not started
NewFrame(header, body) ==
    [signature_header |-> header, payload_body |-> body,
     pc |-> "received", verify_result |-> "", payload |-> None,
     pr_data |-> None, pr_diff |-> "", pr_files |-> <<>>,
     review_feedback |-> None, inline_comments |-> <<>>,
     review_request |-> None,
     ext |-> [diff |-> NotCalled, files |-> NotCalled, ai |-> NotCalled, post |-> NotCalled],
     backend_calls |-> 0, trace |-> <<>>, response |-> None]

\* the mutant of Resume: the file list is kept in a place common to all
\* invocations, so the resumed one finds the list of the one that ran last
ResumeSharingFiles(f) ==
    /\ signature_header' = f.signature_header
    /\ payload_body' = f.payload_body
    /\ pc' = f.pc
    /\ verify_result' = f.verify_result
    /\ payload' = f.payload
    /\ pr_data' = f.pr_data
    /\ pr_diff' = f.pr_diff
    /\ pr_files' = pr_files
    /\ review_feedback' = f.review_feedback
    /\ inline_comments' = f.inline_comments
    /\ review_request' = f.review_request
    /\ ext' = f.ext
    /\ backend_calls' = f.backend_calls
    /\ trace' = f.trace
    /\ response' = f.response

\* an invocation goes on with the local variables it had
Resume(f) ==
    /\ signature_header' = f.signature_header
    /\ payload_body' = f.payload_body
    /\ pc' = f.pc
    /\ verify_result' = f.verify_result
    /\ payload' = f.payload
    /\ pr_data' = f.pr_data
    /\ pr_diff' = f.pr_diff
    /\ pr_files' = f.pr_files
    /\ review_feedback' = f.review_feedback
    /\ inline_comments' = f.inline_comments
    /\ review_request' = f.review_request
    /\ ext' = f.ext
    /\ backend_calls' = f.backend_calls
    /\ trace' = f.trace
    /\ response' = f.response

\* the server passes from the executing invocation to invocation r, which
\* has not returned yet
Switch(r) ==
    /\ r \in DOMAIN suspended
    /\ suspended[r].pc # "done"
    /\ suspended' = [x \in ((DOMAIN suspended) \ {r}) \cup {current} |->
                        IF x = current THEN Frame ELSE suspended[x]]
    /\ current' = r
    /\ Resume(suspended[r])
    /\ UNCHANGED <<webhook_secret, openai_api_key, manual>>

\* the deliveries of the concurrent specification and what their calls give
ConcBodies == {3, 6}
ConcHeaders ==
    {None} \cup {JStr(AlgSha256 \o <<"=">> \o HmacSha256Hex(0, b)) : b \in ConcBodies}
ConcDiffResults == {HttpResponse(200, "diff --git a/a.py"), HttpResponse(404, "")}
ConcFilesResults ==
    {HttpResponse(200, <<[filename |-> FileA]>>),
     HttpResponse(200, <<[filename |-> FileB], [filename |-> FileA]>>),
     CallRaised("ConnectionError")}
ConcAiResults == {[called |-> TRUE, exc |-> "", v |-> TextBug], CallRaised("APIError")}
ConcPostResults == {HttpResponse(200, ""), HttpResponse(422, "")}

ConcInit ==
    /\ webhook_secret = 0
    /\ openai_api_key \in BOOLEAN
    /\ current = 1
    /\ signature_header \in ConcHeaders
    /\ payload_body \in ConcBodies
    /\ pc = "received"
    /\ verify_result = ""
    /\ payload = None
    /\ pr_data = None
    /\ pr_diff = ""
    /\ pr_files = <<>>
    /\ review_feedback = None
    /\ inline_comments = <<>>
    /\ review_request = None
    /\ ext = [diff |-> NotCalled, files |-> NotCalled, ai |-> NotCalled, post |-> NotCalled]
    /\ backend_calls = 0
    /\ trace = <<>>
    /\ response = None
    /\ suspended \in [Runs \ {1} -> {NewFrame(h, b) : h \in ConcHeaders, b \in ConcBodies}]
    /\ manual = None

ConcFetchDiff == FetchDiffWith(ConcDiffResults)
ConcFetchFiles == FetchFilesWith(ConcFilesResults)
ConcReview == ReviewWith(ConcAiResults)
ConcPostReview == PostReviewWith(ConcPostResults)

ConcNext ==
    \/ VerifySignature
    \/ ParsePayload
    \/ FilterAction
    \/ ConcFetchDiff
    \/ ConcFetchFiles
    \/ ConcReview
    \/ FormatComments
    \/ ConcPostReview
    \/ \E r \in Runs : Switch(r)

ConcSpec == ConcInit /\ [][ConcNext]_vars

-----------------------------------------------------------------------------
(* manual_pr_review (POST /review/pr), beside a webhook run on the same    *)
(* pull request that has passed the action filter.  Each call of the       *)
(* manual run is given the result the same call of the webhook run got.    *)

DecimalDigits == <<"0", "1", "2", "3", "4", "5", "6", "7", "8", "9">>

\* int(s) accepts s: here, a non-empty string of decimal digits
IsDecimal(s) ==
    /\ s # <<>>
    /\ \A i \in 1..Len(s) : \E d \in 1..Len(DecimalDigits) : DecimalDigits[d] = s[i]

DigitValue(c) == (CHOOSE d \in 1..Len(DecimalDigits) : DecimalDigits[d] = c) - 1

\* int(s) of a string of decimal digits
RECURSIVE DecimalValue(_)
DecimalValue(s) ==
    IF s = <<>> THEN 0
    ELSE DecimalValue(SubSeq(s, 1, Len(s) - 1)) * Len(DecimalDigits) + DigitValue(s[Len(s)])

\* s.rstrip('/')
RECURSIVE RStripSlash(_)
RStripSlash(s) ==
    IF s # <<>> /\ s[Len(s)] = "/" THEN RStripSlash(SubSeq(s, 1, Len(s) - 1)) ELSE s

\* app.py 283-287: parts[-4], parts[-3], int(parts[-1])
ParsePrUrl(pr_url) ==
    LET parts == Split(RStripSlash(pr_url), "/")
        n == Len(parts)
    IN  IF n < 4 THEN Raise("IndexError")
        ELSE IF ~IsDecimal(parts[n]) THEN Raise("ValueError")
        ELSE Ok([repo_owner |-> parts[n - 3], repo_name |-> parts[n - 2],
                 pr_number |-> DecimalValue(parts[n])])

UrlOfPull ==
    <<"h", "t", "t", "p", "s", ":", "/", "/", "g", "i", "t", "h", "u", "b",
      ".", "c", "o", "m", "/", "o", "c", "t", "o", "/", "r", "e", "p", "o",
      "/", "p", "u", "l", "l", "/", "5">>
UrlWithSlash ==
    <<"h", "t", "t", "p", "s", ":", "/", "/", "g", "i", "t", "h", "u", "b",
      ".", "c", "o", "m", "/", "o", "c", "t", "o", "/", "r", "e", "p", "o",
      "/", "p", "u", "l", "l", "/", "5", "/">>
UrlShort ==
    <<"o", "c", "t", "o", "/", "r", "e", "p", "o", "/", "5">>
UrlNoNumber ==
    <<"h", "t", "t", "p", "s", ":", "/", "/", "g", "i", "t", "h", "u", "b",
      ".", "c", "o", "m", "/", "o", "c", "t", "o", "/", "r", "e", "p", "o",
      "/", "p", "u", "l", "l", "/", "x", "5">>

PrUrls == {UrlOfPull, UrlWithSlash, UrlShort, UrlNoNumber}

\* the local variables of manual_pr_review when it is called; its trace holds
\* the stages of steps 6-10 it has executed
NewManual(pr_url) ==
    [pr_url |-> pr_url, pc |-> "parse_url",
     repo_owner |-> <<>>, repo_name |-> <<>>, pr_number |-> 0,
     pr_diff |-> "", pr_files |-> <<>>, review_feedback |-> None,
     inline_comments |-> <<>>, review_request |-> None,
     trace |-> <<>>, response |-> None]

\* the variables of the webhook run
webhook_vars ==
    <<webhook_secret, openai_api_key, signature_header, payload_body, pc,
      verify_result, payload, pr_data, pr_diff, pr_files, review_feedback,
      inline_comments, review_request, ext, backend_calls, trace, response,
      suspended, current>>

\* app.py 283-289: the URL of the pull request
ManualParseUrl ==
    /\ manual # None
    /\ manual.pc = "parse_url"
    /\ LET r == ParsePrUrl(manual.pr_url)
       IN  manual' =
             IF r.exc # ""
             THEN [manual EXCEPT !.pc = "done",
                     !.response = HTTPException(400, "Invalid PR URL format")]
             ELSE [manual EXCEPT !.pc = "fetch_diff",
                     !.repo_owner = r.v.repo_owner, !.repo_name = r.v.repo_name,
                     !.pr_number = r.v.pr_number]
    /\ UNCHANGED webhook_vars

\* app.py 296 and 321-322: fetch the diff
ManualFetchDiff ==
    /\ manual # None
    /\ manual.pc = "fetch_diff"
    /\ ext.diff.called
    /\ LET r == GetPrDiff(ext.diff)
       IN  manual' =
             IF r.exc = ""
             THEN [manual EXCEPT !.pc = "fetch_files", !.pr_diff = r.v,
                     !.trace = Append(@, "diff")]
             ELSE [manual EXCEPT !.pc = "done", !.trace = Append(@, "diff"),
                     !.response = HTTPException(500, r.exc)]
    /\ UNCHANGED webhook_vars

\* app.py 299 and 321-322: fetch the files; no handler of its own
ManualFetchFiles ==
    /\ manual # None
    /\ manual.pc = "fetch_files"
    /\ ext.files.called
    /\ LET r == GetPrFiles(ext.files)
       IN  manual' =
             IF r.exc = ""
             THEN [manual EXCEPT !.pc = "review", !.pr_files = r.v,
                     !.trace = Append(@, "files")]
             ELSE [manual EXCEPT !.pc = "done", !.trace = Append(@, "files"),
                     !.response = HTTPException(500, r.exc)]
    /\ UNCHANGED webhook_vars

\* app.py 302 and 321-322: the review
ManualReview ==
    /\ manual # None
    /\ manual.pc = "review"
    /\ \E i \in 1..Len(trace) : trace[i] = "review"
    /\ LET r == ReviewPrDiff(manual.pr_diff, manual.pr_files, openai_api_key,
                             IF ext.ai.called THEN ext.ai ELSE Raise("NotCalled"))
       IN  manual' =
             IF r.exc = ""
             THEN [manual EXCEPT !.pc = "format", !.review_feedback = r.v,
                     !.trace = Append(@, "review")]
             ELSE [manual EXCEPT !.pc = "done", !.trace = Append(@, "review"),
                     !.response = HTTPException(500, r.exc)]
    /\ UNCHANGED webhook_vars

\* app.py 305: format the feedback as inline comments
ManualFormat ==
    /\ manual # None
    /\ manual.pc = "format"
    /\ manual' = [manual EXCEPT !.pc = "post",
                    !.inline_comments = CreateInlineComments(manual.review_feedback),
                    !.trace = Append(@, "format")]
    /\ UNCHANGED webhook_vars

\* app.py 308-322: post the review; the HTTPException raised for a review
\* not posted is caught by `except Exception` and raised again as a 500
ManualPost ==
    /\ manual # None
    /\ manual.pc = "post"
    /\ ext.post.called
    /\ LET success == PostPrReview(ext.post)
       IN  manual' =
             [manual EXCEPT !.pc = "done", !.trace = Append(@, "publish"),
                !.review_request =
                    ReviewData(manual.inline_comments, manual.review_feedback.summary),
                !.response =
                    IF success.exc # "" THEN HTTPException(500, success.exc)
                    ELSE IF success.v
                    THEN [status |-> 200, message |-> "Manual review completed",
                          pr_url |-> manual.pr_url,
                          assessment |-> manual.review_feedback.overall_assessment]
                    ELSE HTTPException(500, "500: Failed to post review")]
    /\ UNCHANGED webhook_vars

\* a webhook run that has passed the action filter, and a call of the manual
\* endpoint
ManualInit ==
    /\ webhook_secret = 0
    /\ openai_api_key \in BOOLEAN
    /\ payload_body = 3
    /\ signature_header = JStr(AlgSha256 \o <<"=">> \o HmacSha256Hex(0, 3))
    /\ pc = "fetch_diff"
    /\ verify_result = "True"
    /\ payload = Bodies[3].v
    /\ pr_data = ParsedEvent(3).v
    /\ pr_diff = ""
    /\ pr_files = <<>>
    /\ review_feedback = None
    /\ inline_comments = <<>>
    /\ review_request = None
    /\ ext = [diff |-> NotCalled, files |-> NotCalled, ai |-> NotCalled, post |-> NotCalled]
    /\ backend_calls = 0
    /\ trace = <<"verify", "parse", "filter">>
    /\ response = None
    /\ suspended = <<>>
    /\ current = 1
    /\ manual \in {NewManual(u) : u \in PrUrls}

ManualNext ==
    \/ FetchDiff
    \/ FetchFiles
    \/ Review
    \/ FormatComments
    \/ PostReview
    \/ ManualParseUrl
    \/ ManualFetchDiff
    \/ ManualFetchFiles
    \/ ManualReview
    \/ ManualFormat
    \/ ManualPost

ManualSpec == ManualInit /\ [][ManualNext]_vars

-----------------------------------------------------------------------------
(* The claims *)

\* stage s has been executed in this run
InTrace(s) == \E i \in 1..Len(trace) : trace[i] = s

\* none of the stages after the action filter has run, no external call was made
NoPipelineCall ==
    /\ ~InTrace("diff") /\ ~InTrace("files") /\ ~InTrace("review")
    /\ ~InTrace("format") /\ ~InTrace("publish")
    /\ ext.diff = NotCalled /\ ext.files = NotCalled
    /\ ext.ai = NotCalled /\ ext.post = NotCalled
    /\ backend_calls = 0 /\ review_request = None

\* the header is a str '<algorithm>=<hexDigest>' (one "=") whose digest is the
\* hex HMAC-SHA256 of the body under the secret
GoodSignature ==
    /\ signature_header # None
    /\ \E i \in 1..Len(signature_header.s) :
         /\ signature_header.s[i] = "="
         /\ \A j \in 1..Len(signature_header.s) : signature_header.s[j] = "=" => j = i
         /\ SubSeq(signature_header.s, i + 1, Len(signature_header.s))
              = HmacSha256Hex(webhook_secret, payload_body)

\* a call that was made and did not give status 200
CallFailed(r) == r.called /\ (r.exc # "" \/ r.status # 200)

\* C1, as claimed: verify_webhook_signature returns True only for a header
\* '<algorithm>=<hexDigest>' carrying the HMAC-SHA256 of the body under the
\* secret, and raises the authentication error (ValueError) for every other
\* input.  Violated: a digest with a character outside ASCII makes
\* hmac.compare_digest raise TypeError.
C1_VerifyTrueOrAuthError ==
    verify_result # "" =>
        /\ verify_result = "True" => GoodSignature
        /\ ~GoodSignature => verify_result = "ValueError"

\* C2, as claimed: a run whose signature verification fails ends with HTTP
\* 401 and executes no later stage.  Violated: the TypeError of C1 is not a
\* ValueError, so the handler answers 500.
C2_BadSignatureIs401 ==
    (verify_result # "" /\ verify_result # "True") =>
        /\ pc = "done"
        /\ response.status = 401
        /\ trace = <<"verify">>
        /\ ~InTrace("parse")
        /\ NoPipelineCall

\* the dict p has the value at the path of keys, every dict on the way present
RECURSIVE HasPath(_, _)
HasPath(p, path) ==
    IF path = <<>> THEN TRUE
    ELSE /\ p.t = "obj"
         /\ Head(path) \in DOMAIN p.o
         /\ HasPath(p.o[Head(path)], Tail(path))

\* a well-formed event: what is present of pull_request, repository and
\* repository.owner is an object
WellFormedEvent(p) ==
    /\ p.t = "obj"
    /\ HasPath(p, <<"pull_request">>) => p.o.pull_request.t = "obj"
    /\ HasPath(p, <<"repository">>) => p.o.repository.t = "obj"
    /\ HasPath(p, <<"repository", "owner">>) => p.o.repository.o.owner.t = "obj"

\* one of the four required values is missing
MissingRequired(p) ==
    \/ ~HasPath(p, <<"action">>)
    \/ ~HasPath(p, <<"pull_request", "number">>)
    \/ ~HasPath(p, <<"repository", "owner", "login">>)
    \/ ~HasPath(p, <<"repository", "name">>)

\* C3, as claimed: for a well-formed event missing action,
\* pull_request.number, repository.owner.login or repository.name,
\* parse_webhook_pr returns None: no exception, no descriptor.  Violated: the
\* action is read with payload.get, so an event without action gives a
\* descriptor whose action is None.
C3_MissingKeyGivesNone ==
    (InTrace("parse") /\ payload # None /\ WellFormedEvent(payload)
        /\ MissingRequired(payload)) =>
        /\ pr_data = None
        /\ pc = "done"
        /\ response = [status |-> 200, message |-> "Invalid webhook payload"]

\* C4, as claimed: a verified run whose body json.loads cannot parse, or for
\* which the parser returns None, ends with a 200 no-op carrying a message,
\* never a 500, and makes no call.  Violated: the JSONDecodeError of
\* request.json() reaches the outer except, which answers 500.
C4_UnparseableIsBenign ==
    (verify_result = "True" /\ InTrace("parse")
        /\ (Bodies[payload_body].exc # "" \/ ParsedEvent(payload_body) = Ok(None))) =>
        /\ pc = "done"
        /\ response.status = 200
        /\ "message" \in DOMAIN response
        /\ NoPipelineCall

\* C5: once the action filter has run, the run goes on to the diff fetch
\* exactly when the action is opened, synchronize or reopened; for any other
\* action it ends with a 200 no-op carrying the action, and makes no call.
C5_ActionFilter ==
    /\ InTrace("filter") =>
         LET a == pr_data.action
             reviewed == a.t = "str" /\ a.s \in {"opened", "synchronize", "reopened"}
         IN  /\ verify_result = "True" /\ InTrace("parse")
             /\ reviewed => (pc = "fetch_diff" \/ InTrace("diff"))
             /\ ~reviewed =>
                  /\ pc = "done"
                  /\ response = [status |-> 200, message |-> "Ignoring action",
                                 action |-> a]
                  /\ NoPipelineCall
    /\ InTrace("diff") => InTrace("filter")

C5_Witness ==
    /\ pc = "done"
    /\ InTrace("filter")
    /\ pr_data.action = JStr("closed")
    /\ response.status = 200

\* C6: a failed diff fetch (an exception of the request, or any status other
\* than 200) ends the run with HTTP 500 right after the fetch: no files
\* fetch, no review, no formatting, no publish call.
C6_DiffFailureIsFatal ==
    CallFailed(ext.diff) =>
        /\ pc = "done"
        /\ response = [status |-> 500, detail |-> "Failed to fetch PR diff"]
        /\ trace[Len(trace)] = "diff"
        /\ ~InTrace("files") /\ ~InTrace("review")
        /\ ~InTrace("format") /\ ~InTrace("publish")
        /\ ext.files = NotCalled /\ ext.ai = NotCalled /\ ext.post = NotCalled
        /\ backend_calls = 0 /\ review_request = None

C6_Witness ==
    /\ pc = "done"
    /\ ext.diff.called /\ ext.diff.exc = "" /\ ext.diff.status = 404
    /\ response.status = 500

\* C7: after a failed files fetch the run goes on with the empty file list
\* through the review, the formatting and the publish call; its response is
\* decided by the publish call alone.
C7_FilesFailureRecovers ==
    CallFailed(ext.files) =>
        /\ pr_files = <<>>
        /\ pc \in {"review", "format", "post", "done"}
        /\ InTrace("review") => (pc # "review" /\ review_feedback # None
                                   /\ review_feedback.issues = <<>>)
        /\ InTrace("format") => (pc \in {"post", "done"} /\ inline_comments = <<>>)
        /\ pc = "done" =>
             /\ trace = <<"verify", "parse", "filter", "diff", "files",
                          "review", "format", "publish">>
             /\ ext.post.called
             /\ response.status = IF CallFailed(ext.post) THEN 500 ELSE 200

C7_Witness ==
    /\ pc = "done"
    /\ ext.files.called /\ ext.files.exc = "" /\ ext.files.status = 404
    /\ InTrace("publish")
    /\ response.status = 200

\* C8: review_pr_diff always returns a feedback value: without a credential
\* the offline fallback, with no backend call; when the backend call raises,
\* the same offline fallback; the run never fails in the review stage.
C8_ReviewNeverFails ==
    InTrace("review") =>
        /\ review_feedback # None
        /\ pc \in {"format", "post", "done"}
        /\ response # [status |-> 500, detail |-> "AI review failed"]
        /\ ~openai_api_key =>
             /\ backend_calls = 0 /\ ext.ai = NotCalled
             /\ review_feedback = MockReviewDiff(pr_diff, pr_files)
        /\ openai_api_key =>
             /\ backend_calls = 1 /\ ext.ai.called
             /\ ext.ai.exc # "" => review_feedback = MockReviewDiff(pr_diff, pr_files)

C8_Witness ==
    /\ pc = "done"
    /\ openai_api_key
    /\ ext.ai.called /\ ext.ai.exc = "APIError"
    /\ review_feedback.overall_assessment = MockAssessment
    /\ response.status = 200

\* the review of this run is the offline fallback
MockPath ==
    /\ InTrace("review")
    /\ ~openai_api_key \/ (ext.ai.called /\ ext.ai.exc # "")

\* the issues of the offline fallback: min(n, 2) of them, the i-th on the
\* i-th file, line 1, severity info
MockIssuesAsClaimed ==
    /\ Len(review_feedback.issues) =
         (IF Len(pr_files) <= 2 THEN Len(pr_files) ELSE 2)
    /\ \A i \in 1..Len(review_feedback.issues) :
         /\ review_feedback.issues[i].file = pr_files[i].filename
         /\ review_feedback.issues[i].line = 1
         /\ review_feedback.issues[i].severity = "info"
         /\ review_feedback.issues[i].message =
              MockMessagePrefix \o pr_files[i].filename \o MockMessageSuffix

\* C9, as claimed: the offline fallback has min(n, 2) issues, the i-th on the
\* i-th file with line 1 and severity info, and the neutral assessment, the
\* label the Feedback Parser gives a text without keyword.  Violated: the
\* fallback has a label of its own.
C9_MockHasParserNeutralLabel ==
    MockPath =>
        /\ MockIssuesAsClaimed
        /\ review_feedback.overall_assessment = GetOverallAssessment(TextPlain)

\* C9, amended: the offline fallback depends on the file list only; it has
\* min(n, 2) issues, the i-th on the i-th file with line 1 and severity info,
\* a fixed summary, and the fixed assessment "Mock review completed (testing
\* mode)", which is none of the four labels of the Feedback Parser.
C9_MockShape ==
    MockPath =>
        /\ MockIssuesAsClaimed
        /\ review_feedback.summary = MockSummary
        /\ review_feedback.overall_assessment = "Mock review completed (testing mode)"
        /\ review_feedback.overall_assessment \notin
             {GetOverallAssessment(t) : t \in ReviewTexts \cup {<<>>}}
        /\ review_feedback.overall_assessment \notin
             {AssessCritical, AssessNeedsWork, AssessLgtm, AssessNeutral}

C9_Witness ==
    /\ MockPath
    /\ Len(pr_files) = 3
    /\ Len(review_feedback.issues) = 2
    /\ pr_files[1] # pr_files[2]

\* post_pr_review returned False
PublishReturnedFalse ==
    ext.post.called /\ ext.post.exc = "" /\ ext.post.status # 200

\* C10, as claimed: a publish failure (post_pr_review returning False) does
\* not escalate to a caller-visible 500.  Violated: the handler raises
\* HTTPException(500, "Failed to post review").
C10_PublishFailureIsNot500 ==
    (pc = "done" /\ PublishReturnedFalse) => response.status # 500

\* C10, amended: a publish failure ends the run with HTTP 500 "Failed to post
\* review".  A 401 is answered exactly for the ValueError of the signature
\* check; a 500 for a failed diff fetch, for a publish call that returned
\* False or raised, and for an exception the outer except catches (the
\* TypeError of the signature check, request.json() or the parser raising);
\* every other run answers 200.
C10_PublishFailureIs500 ==
    pc = "done" =>
        /\ PublishReturnedFalse =>
             response = [status |-> 500, detail |-> "Failed to post review"]
        /\ response.status \in {200, 401, 500}
        /\ response.status = 401 <=> verify_result = "ValueError"
        /\ response.status = 500 <=>
             \/ verify_result \notin {"True", "ValueError"}
             \/ verify_result = "True" /\ ParsedEvent(payload_body).exc # ""
             \/ CallFailed(ext.diff)
             \/ CallFailed(ext.post)

C10_Witness ==
    /\ pc = "done"
    /\ ext.post.called /\ ext.post.exc = "" /\ ext.post.status = 422
    /\ response.status = 500

\* post_pr_review returned True: the run answered that the review was posted
PublishReturnedTrue ==
    /\ response # None
    /\ response.status = 200
    /\ response.message = "Code review completed and posted"

\* C11, as claimed: post_pr_review returns True exactly when the hosting
\* provider answers with a success status (2xx), and False, without raising,
\* for every other status.  Violated: 201 is answered with False.
C11_TrueIffSuccessStatus ==
    (pc = "done" /\ ext.post.called /\ ext.post.exc = "") =>
        (PublishReturnedTrue <=> ext.post.status \in 200..299)

\* C11, amended: post_pr_review returns True exactly when the hosting
\* provider answers the review request with status 200, and returns False,
\* without raising, for every other status (2xx other than 200 included).
C11_TrueIffStatus200 ==
    (pc = "done" /\ ext.post.called /\ ext.post.exc = "") =>
        /\ PublishReturnedTrue <=> ext.post.status = 200
        /\ ext.post.status # 200 =>
             response = [status |-> 500, detail |-> "Failed to post review"]
        /\ PostPrReview(ext.post).exc = ""

C11_Witness ==
    /\ pc = "done"
    /\ ext.post.called /\ ext.post.exc = "" /\ ext.post.status = 201
    /\ response.status = 500

\* the number of times stage s was executed in this run
Count(s) == Cardinality({i \in 1..Len(trace) : trace[i] = s})

\* C12: every review request of a run has event COMMENT, whatever the
\* assessment (never APPROVE, never REQUEST_CHANGES); a run submits at most
\* one review request, which carries all its inline comments.
C12_CommentOnlyOnce ==
    /\ Count("publish") <= 1
    /\ review_request # None <=> InTrace("publish")
    /\ review_request # None =>
         /\ review_request.event = "COMMENT"
         /\ review_request.comments = inline_comments
         /\ review_request.body = review_feedback.summary
         /\ Len(review_request.comments) = Len(review_feedback.issues)

C12_Witness ==
    /\ review_request # None
    /\ review_feedback.overall_assessment = AssessLgtm
    /\ review_request.event = "COMMENT"
    /\ Len(review_request.comments) >= 1

\* the stages of a run in the order of the handler
StageOrder ==
    <<"verify", "parse", "filter", "diff", "files", "review", "format", "publish">>

\* C19: the stages of a run are executed in the order diff fetch, files
\* fetch, review (with its one generation call), formatting, publish call,
\* each at most once: a failed call is not attempted again; the files fetch
\* follows a successful diff fetch only, and the publish call a successful
\* diff fetch and a completed review.
C19_StagesInOrderOnce ==
    /\ Len(trace) <= Len(StageOrder)
    /\ trace = SubSeq(StageOrder, 1, Len(trace))
    /\ \A s \in {"diff", "files", "review", "format", "publish"} : Count(s) <= 1
    /\ backend_calls <= 1
    /\ ext.diff.called <=> InTrace("diff")
    /\ ext.files.called <=> InTrace("files")
    /\ ext.ai.called => (InTrace("review") /\ backend_calls = 1)
    /\ ext.post.called <=> InTrace("publish")
    /\ InTrace("files") => (~CallFailed(ext.diff) /\ pr_diff = ext.diff.body)
    /\ InTrace("review") => InTrace("files")
    /\ InTrace("publish") =>
         /\ ~CallFailed(ext.diff)
         /\ review_feedback # None
         /\ inline_comments = CreateInlineComments(review_feedback)
    /\ CallFailed(ext.diff) => pc = "done"
    /\ CallFailed(ext.post) => pc = "done"

C19_Witness ==
    /\ pc = "done"
    /\ trace = StageOrder
    /\ backend_calls = 1
    /\ CallFailed(ext.files)
    /\ CallFailed(ext.post)

\* C20, as claimed (its safety part): a run has a response exactly when it
\* has ended; the response is one of Published (200, review posted),
\* Rejected (200 no-op, or 401) and Failed (500); a run that has ended
\* executes no further stage; and Failed is reached only after the signature
\* verification has passed.  Violated: the TypeError of C1 ends a run with
\* 500 although the verification did not pass.
C20_OneTerminalOutcome ==
    /\ response # None <=> pc = "done"
    /\ pc = "done" =>
         /\ ~ENABLED Next
         /\ response.status \in {200, 401, 500}
         /\ response.status = 200 => "message" \in DOMAIN response
         /\ response.status = 500 => verify_result = "True"

-----------------------------------------------------------------------------
(* The claims about the Feedback Parser and the formatter, under ParserSpec *)

\* the review came from the backend's text, parsed by _parse_ai_response
AiPath == ext.ai.called /\ ext.ai.exc = "" /\ review_feedback # None

\* the text the parser was given
ParsedText == review_feedback.summary

\* the line holds the filename as the parser compares them
LineMatches(line, filename) == Contains(Lower(line), filename)

NoLineMatches(text, files) ==
    LET lines == Split(text, "\n")
    IN  \A i \in 1..Len(lines) : \A k \in 1..Len(files) :
            ~LineMatches(lines[i], files[k].filename)

\* C13: for every review text and every non-empty file list the parser
\* returns at least one issue; when no line of the text matches any filename
\* it returns exactly one issue, on the first file, line 1, severity info.
C13_NeverEmptyWithFiles ==
    (AiPath /\ pr_files # <<>>) =>
        /\ review_feedback.issues # <<>>
        /\ NoLineMatches(ParsedText, pr_files) =>
             /\ Len(review_feedback.issues) = 1
             /\ review_feedback.issues[1].file = pr_files[1].filename
             /\ review_feedback.issues[1].line = 1
             /\ review_feedback.issues[1].severity = "info"

C13_Witness ==
    /\ AiPath
    /\ Len(pr_files) >= 2
    /\ pr_files[1].filename = FileB
    /\ pr_files[2].filename = FileA
    /\ NoLineMatches(ParsedText, pr_files)
    /\ Contains(ParsedText, KwCritical)
    /\ Len(review_feedback.issues) = 1
    /\ review_feedback.issues[1].file = FileB
    /\ review_feedback.issues[1].severity = "info"

\* the text holds one of the words, whatever the case of its letters
HasKeyword(text, words) == \E w \in words : Contains(Lower(text), w)

\* C14: the overall assessment is an ordered keyword test over the whole
\* text, the letters' case ignored: any of critical/security/vulnerable/broken
\* gives the critical label whatever else the text holds; otherwise any of
\* major/bug/error gives needsWork; otherwise 'looks good' or 'lgtm' gives
\* lgtm; otherwise neutral.  The label depends on the text only.
C14_AssessmentIsOrderedTest ==
    AiPath =>
        LET crit == HasKeyword(ParsedText, {KwCritical, KwSecurity, KwVulnerable, KwBroken})
            work == HasKeyword(ParsedText, {KwMajor, KwBug, KwError})
            good == HasKeyword(ParsedText, {KwLooksGood, KwLgtm})
            label == review_feedback.overall_assessment
        IN  /\ crit => label = AssessCritical
            /\ (~crit /\ work) => label = AssessNeedsWork
            /\ (~crit /\ ~work /\ good) => label = AssessLgtm
            /\ (~crit /\ ~work /\ ~good) => label = AssessNeutral

C14_Witness ==
    /\ AiPath
    /\ Contains(ParsedText, KwBroken)
    /\ Contains(ParsedText, WordLgtmUpper)
    /\ ~HasKeyword(ParsedText, {KwCritical, KwSecurity, KwVulnerable})
    /\ review_feedback.overall_assessment = AssessCritical

\* C15: formatting maps the issues to comments one for one, in order, with
\* nothing filtered and nothing deduplicated: as many comments as issues,
\* the i-th with path, line and body of the i-th issue; the feedback is
\* left as it was.
C15_FormatIsOneForOne ==
    [][pc = "format" =>
         /\ review_feedback' = review_feedback
         /\ Len(inline_comments') = Len(review_feedback.issues)
         /\ \A i \in 1..Len(review_feedback.issues) :
              /\ inline_comments'[i].path = review_feedback.issues[i].file
              /\ inline_comments'[i].line = review_feedback.issues[i].line
              /\ inline_comments'[i].body = review_feedback.issues[i].message]_vars

C15_Witness ==
    /\ InTrace("format")
    /\ Len(review_feedback.issues) = 2
    /\ review_feedback.issues[1] = review_feedback.issues[2]
    /\ Len(inline_comments) = 2
    /\ inline_comments[1] = inline_comments[2]
    /\ inline_comments[1].path = review_feedback.issues[1].file
    /\ inline_comments[1].body = review_feedback.issues[1].message

\* C16: every inline comment made from the parser's result has as its path
\* the filename of some element of the file list; with an empty file list
\* there is no comment.
C16_CommentsNameListedFiles ==
    AiPath =>
        /\ \A i \in 1..Len(inline_comments) :
              \E k \in 1..Len(pr_files) : inline_comments[i].path = pr_files[k].filename
        /\ \A i \in 1..Len(review_feedback.issues) :
              \E k \in 1..Len(pr_files) : review_feedback.issues[i].file = pr_files[k].filename
        /\ pr_files = <<>> => (inline_comments = <<>> /\ review_feedback.issues = <<>>)

C16_Witness ==
    /\ AiPath
    /\ InTrace("format")
    /\ Contains(ParsedText, MentionUpperA)
    /\ pr_files = <<[filename |-> FileB], [filename |-> FileA]>>
    /\ Len(inline_comments) = 1
    /\ inline_comments[1].path = FileA

\* the issue the claim gives a line: the first file of the list whose
\* filename, case-folded, is in the case-folded line
RECURSIVE ClaimedIssueOfLine(_, _, _)
ClaimedIssueOfLine(line, files, k) ==
    IF k > Len(files) THEN <<>>
    ELSE IF Contains(Lower(line), Lower(files[k].filename))
    THEN <<[file |-> files[k].filename, line |-> 1, message |-> Strip(line)]>>
    ELSE ClaimedIssueOfLine(line, files, k + 1)

RECURSIVE ClaimedIssuesOfLines(_, _)
ClaimedIssuesOfLines(lines, files) ==
    IF lines = <<>> THEN <<>>
    ELSE ClaimedIssueOfLine(Head(lines), files, 1)
         \o ClaimedIssuesOfLines(Tail(lines), files)

ClaimedIssues == ClaimedIssuesOfLines(Split(ParsedText, "\n"), pr_files)

\* C17, as claimed: the parser gives each line, in order, at most one issue,
\* exactly when some filename of the list, compared with the case of the
\* letters ignored, is in the line; the issue is on the first such file,
\* line 1, with the trimmed line as message.  Violated: the code folds the
\* line and not the filename, so a filename with a capital never matches.
C17_CaseInsensitiveFirstMatch ==
    (AiPath /\ ClaimedIssues # <<>>) =>
        /\ Len(review_feedback.issues) = Len(ClaimedIssues)
        /\ \A i \in 1..Len(ClaimedIssues) :
              /\ review_feedback.issues[i].file = ClaimedIssues[i].file
              /\ review_feedback.issues[i].line = ClaimedIssues[i].line
              /\ review_feedback.issues[i].message = ClaimedIssues[i].message

\* C18: the severity of a line's issue is an ordered keyword test on the
\* line, the letters' case ignored, the first group that matches winning:
\* any of critical/security/vulnerable/exploit gives critical; otherwise any
\* of major/bug/error/broken gives major; otherwise any of
\* minor/style/formatting/suggestion gives minor; otherwise info.
C18_SeverityIsOrderedTest ==
    (AiPath /\ ~NoLineMatches(ParsedText, pr_files)) =>
        \A i \in 1..Len(review_feedback.issues) :
            LET msg == review_feedback.issues[i].message
                sev == review_feedback.issues[i].severity
                crit == HasKeyword(msg, {KwCritical, KwSecurity, KwVulnerable, KwExploit})
                major == HasKeyword(msg, {KwMajor, KwBug, KwError, KwBroken})
                minor == HasKeyword(msg, {KwMinor, KwStyle, KwFormatting, KwSuggestion})
            IN  /\ crit => sev = "critical"
                /\ (~crit /\ major) => sev = "major"
                /\ (~crit /\ ~major /\ minor) => sev = "minor"
                /\ (~crit /\ ~major /\ ~minor) => sev = "info"

C18_Witness ==
    /\ AiPath
    /\ ~NoLineMatches(ParsedText, pr_files)
    /\ Len(review_feedback.issues) = 1
    /\ Contains(review_feedback.issues[1].message, WordCriticalUpper)
    /\ Contains(review_feedback.issues[1].message, KwBroken)
    /\ review_feedback.issues[1].severity = "critical"

\* the line of the claim's example, with no keyword, gets info
C18_WitnessInfo ==
    /\ AiPath
    /\ ~NoLineMatches(ParsedText, pr_files)
    /\ Len(review_feedback.issues) = 1
    /\ review_feedback.issues[1].message = MentionA \o WordNullCheck
    /\ review_feedback.issues[1].severity = "info"

-----------------------------------------------------------------------------
(* The claim about concurrent deliveries, under ConcSpec *)

\* the local variables of delivery r
FrameOf(r) == IF r = current THEN Frame ELSE suspended[r]

StagesUpTo(n) == SubSeq(StageOrder, 1, n)

\* what a delivery gives when it is processed alone: the stages, the review
\* sent and the response, computed from its own header and body and from the
\* results e its own external calls gave, under the singletons' state
SoloOutcome(secret, has_key, header, body, e) ==
    LET v == VerifyWebhookSignature(body, header, secret)
        p == ParsedEvent(body)
        d == GetPrDiff(e.diff)
        fl == GetPrFiles(e.files)
        files == IF fl.exc = "" THEN fl.v ELSE <<>>
        fb == ReviewPrDiff(d.v, files, has_key,
                           IF e.ai.called THEN e.ai ELSE Raise("NotCalled")).v
        ended(n, resp) ==
            [trace |-> StagesUpTo(n), review_request |-> None, response |-> resp]
    IN  IF v.exc = "ValueError" THEN ended(1, HTTPException(401, "Invalid signature"))
        ELSE IF v.exc # "" THEN ended(1, HTTPException(500, v.exc))
        ELSE IF p.exc # "" THEN ended(2, HTTPException(500, p.exc))
        ELSE IF p.v = None
        THEN ended(2, [status |-> 200, message |-> "Invalid webhook payload"])
        ELSE IF ~IsReviewAction(p.v.action)
        THEN ended(3, [status |-> 200, message |-> "Ignoring action",
                       action |-> p.v.action])
        ELSE IF d.exc # "" THEN ended(4, HTTPException(500, "Failed to fetch PR diff"))
        ELSE [trace |-> StageOrder,
              review_request |-> ReviewData(CreateInlineComments(fb), fb.summary),
              response |-> PublishResponse(PostPrReview(e.post), p.v, fb)]

\* delivery r has returned, with the outcome it has when processed alone
ReturnedAsAlone(r) ==
    LET f == FrameOf(r)
        o == SoloOutcome(webhook_secret, openai_api_key,
                         f.signature_header, f.payload_body, f.ext)
    IN  f.pc = "done" =>
            /\ f.trace = o.trace
            /\ f.review_request = o.review_request
            /\ f.response = o.response
            /\ f.ext.ai.called => openai_api_key

\* C21: with several deliveries processed concurrently, in any interleaving
\* of their stages, a step of one delivery leaves the local variables of
\* every other delivery as they were, no step changes the state of the
\* service singletons, and every delivery that has returned has the stages,
\* the review sent and the response it has when it is processed alone.
C21_RunsAreIndependent ==
    /\ [](\A r \in Runs : ReturnedAsAlone(r))
    /\ [][/\ webhook_secret' = webhook_secret
          /\ openai_api_key' = openai_api_key
          /\ \A r \in Runs :
                \/ r = current /\ r = current'
                \/ FrameOf(r)' = FrameOf(r)]_vars

\* delivery 1 waits at its review with its own file list while delivery 2
\* has run to its end and posted a review on another file list
C21_Witness ==
    /\ NumRuns >= 2
    /\ current = 2
    /\ pc = "done"
    /\ response.status = 200
    /\ review_request # None
    /\ suspended[1].pc = "review"
    /\ suspended[1].pr_files # pr_files
    /\ suspended[1].pr_files # <<>>
    /\ suspended[1].response = None

-----------------------------------------------------------------------------
(* The claim about the manual endpoint, under ManualSpec *)

\* the manual call is on the pull request of the webhook run
SamePullRequest ==
    /\ manual # None
    /\ ParsePrUrl(manual.pr_url).exc = ""
    /\ manual.repo_owner = <<"o", "c", "t", "o">>
    /\ manual.repo_name = <<"r", "e", "p", "o">>
    /\ manual.pr_number = pr_data.pr_number.n

\* C22, as claimed: for the same pull request and the same results of the
\* diff fetch, the files fetch, the generation call and the publish call,
\* the manual run executes the stages of the webhook run after its action
\* filter, sends the same review and ends as it does: review posted, or
\* failure.  Violated: a failed files fetch ends the manual run with 500,
\* while the webhook run goes on with no files and posts its review.
C22_ManualSameAsWebhook ==
    (SamePullRequest /\ pc = "done" /\ manual.pc = "done") =>
        /\ manual.trace = SubSeq(trace, 4, Len(trace))
        /\ manual.review_request = review_request
        /\ manual.response.status = 200 <=> response.status = 200

====
